---- MODULE Spec2Model ----
(***************************************************************************)
(* Model of the per-dimension range containers of TileDB:                  *)
(*   - RangeSubset            (tiledb/sm/subarray/range_subset.{h,cc})     *)
(*   - DimensionRangeManager  (tiledb/sm/subarray/range_manager.{h,cc})    *)
(* One object is constructed (Init) and then driven through its public     *)
(* mutators add_range_unsafe and sort_ranges.                              *)
(* The module also models, each under a specification of its own, parts of *)
(* StorageManager (tiledb/sm/storage_manager/storage_manager.h): the URI   *)
(* selection get_sorted_uris / get_uris_to_vacuum (SpecURI), the counter   *)
(* of queries in progress (SpecQueries), array open (SpecOpen) and the     *)
(* cancellation of tasks (SpecCancel).                                     *)
(*                                                                         *)
(* A Range is the record [start, end].  Integral values are the integers   *)
(* themselves, floating point values are counted in quarters (2 = 0.5,     *)
(* 3 = 0.75; no NaN), strings are sequences of byte values.                *)
(* The 64-bit datatypes (INT64, UINT64, the DATETIME and TIME types) and   *)
(* UINT32 instantiate the same templates as the modelled integral types,   *)
(* but their extreme values do not fit TLC's integers: they are left out.  *)
(***************************************************************************)
EXTENDS Integers, Sequences, FiniteSets, TLC

VARIABLES
  cls,          \* which class the object is an instance of
  ctor,         \* the arguments its constructor was called with
  datatype,     \* the Datatype given to the factory / constructor
  impl_,        \* RangeSubset::impl_ (the RangeSubsetInternalsImpl<T,D,CoalesceAdds>)
  add_strategy_,\* DimensionRangeManager::add_strategy_
  full_range_,  \* RangeSubset::full_range_ / DimensionRangeManager::bounds_
  is_default_,  \* is_default_
  ranges_,      \* ranges_
  last_call,    \* the last call made on the object, its argument and its Status
  pre,          \* ranges_ and is_default_ as they were when last_call was made
  nadds,        \* number of add_range_unsafe calls so far
  uri_args,     \* the arguments of a get_sorted_uris / get_uris_to_vacuum call
  uri_result,   \* what that call returned
  queries_in_progress_,  \* StorageManager::queries_in_progress_
  query_pc,     \* where each query thread is
  waiter_pc,    \* where the thread calling wait_for_zero_in_progress is
  wakeups,      \* how often that thread was woken and blocked again
  cancellation_in_progress_,  \* StorageManager::cancellation_in_progress_
  task_state,   \* the state of each task handed to cancelable_tasks_
  cancel_pc,    \* where the thread calling cancel_all_tasks is
  mutations,    \* number of mutations the tasks have applied
  array_state,  \* the state of the array being opened
  open_arrays_, \* StorageManager::open_arrays_
  open_call,    \* the open call in progress and what it has loaded so far
  open_result,  \* the tuple the last open call returned
  xlocked,      \* the array is exclusively locked by consolidation or vacuum
  xlock_pc,     \* where the thread consolidating or vacuuming is
  fragments,    \* number of changes made to the fragment set of the array
  meta_entries,    \* the metadata entries that are serialized
  metadata_buffs,  \* the serialized buffers handed to Metadata::deserialize
  meta             \* the Metadata object that Metadata::deserialize returned

rangeVars == <<cls, ctor, datatype, impl_, add_strategy_, full_range_,
               is_default_, ranges_, last_call, pre, nadds>>

uriVars == <<uri_args, uri_result>>

queryVars == <<queries_in_progress_, query_pc, waiter_pc, wakeups>>

cancelVars == <<cancellation_in_progress_, task_state, cancel_pc, mutations>>

openVars == <<array_state, open_arrays_, open_call, open_result>>

xlockVars == <<xlocked, xlock_pc, fragments>>

metaVars == <<meta_entries, metadata_buffs, meta>>

vars == <<rangeVars, uriVars, queryVars, cancelVars, openVars, xlockVars, metaVars>>

\* The parts of the model a specification does not exercise.
RangeUnused ==
  /\ cls = "unused" /\ ctor = "unused" /\ datatype = "unused"
  /\ impl_ = "unused" /\ add_strategy_ = "unused" /\ full_range_ = "unused"
  /\ is_default_ = TRUE /\ ranges_ = <<>> /\ last_call = "unused"
  /\ pre = "unused" /\ nadds = 0

UriUnused == uri_args = "unused" /\ uri_result = [status |-> "unused"]

QueriesUnused ==
  /\ queries_in_progress_ = 0 /\ query_pc = "unused"
  /\ waiter_pc = "unused" /\ wakeups = 0

CancelUnused ==
  /\ cancellation_in_progress_ = FALSE /\ task_state = "unused"
  /\ cancel_pc = "unused" /\ mutations = 0

OpenUnused ==
  /\ array_state = "unused" /\ open_arrays_ = {}
  /\ open_call = "unused" /\ open_result = "unused"

XlockUnused == xlocked = FALSE /\ xlock_pc = "unused" /\ fragments = 0

MetaUnused ==
  meta_entries = <<>> /\ metadata_buffs = <<>> /\ meta = [status |-> "unused"]

\* Longest history of add_range_unsafe calls explored.
MaxAdds == 3

(***************************************************************************)
(* Datatypes and the C++ element type the factories instantiate for each.  *)
(***************************************************************************)
IntegralDatatypes == {"INT8", "UINT8", "INT16", "UINT16", "INT32", "CHAR", "ANY"}

FloatDatatypes == {"FLOAT32", "FLOAT64"}

StringDatatypes == {"STRING_ASCII", "STRING_UTF8", "STRING_UTF16",
                    "STRING_UTF32", "STRING_UCS2", "STRING_UCS4"}

Datatypes == IntegralDatatypes \cup FloatDatatypes \cup StringDatatypes

\* The switch of range_subset_internals / create_range_manager: datatype -> T.
CppType(D) ==
  CASE D = "INT8"    -> "int8_t"
    [] D = "UINT8"   -> "uint8_t"
    [] D = "INT16"   -> "int16_t"
    [] D = "UINT16"  -> "uint16_t"
    [] D = "INT32"   -> "int32_t"
    [] D = "FLOAT32" -> "float"
    [] D = "FLOAT64" -> "double"
    [] D = "CHAR"    -> "char"
    [] D = "ANY"     -> "uint8_t"
    [] D \in StringDatatypes -> "std::string"

is_integral(T) == T \in {"int8_t", "uint8_t", "int16_t", "uint16_t", "int32_t", "char"}

is_floating_point(T) == T \in {"float", "double"}

is_arithmetic(T) == is_integral(T) \/ is_floating_point(T)

\* std::numeric_limits<T>::max() (char is signed, as on x86-64).
numeric_limits_max(T) ==
  CASE T = "int8_t"   -> 127
    [] T = "uint8_t"  -> 255
    [] T = "int16_t"  -> 32767
    [] T = "uint16_t" -> 65535
    [] T = "int32_t"  -> 2147483647
    [] T = "char"     -> 127

\* std::numeric_limits<T>::min().
numeric_limits_min(T) ==
  CASE T = "int8_t"   -> -128
    [] T = "uint8_t"  -> 0
    [] T = "int16_t"  -> -32768
    [] T = "uint16_t" -> 0
    [] T = "int32_t"  -> (-2147483647) - 1
    [] T = "char"     -> -128

(***************************************************************************)
(* Ranges.                                                                 *)
(***************************************************************************)
Range(s, e) == [start |-> s, end |-> e]

NoRange == [start |-> "none", end |-> "none"]

\* Byte strings used for the string datatypes.
STR_empty == <<>>
STR_a     == <<97>>
STR_ax    == <<97, 120>>
STR_bird  == <<98, 105, 114, 100>>
STR_cat   == <<99, 97, 116>>
STR_dog   == <<100, 111, 103>>

\* The bounds every modelled object is constructed over.
FullRange(D) ==
  CASE D \in IntegralDatatypes -> Range(1, 5)
    [] D \in FloatDatatypes    -> Range(-4, 4)
    [] D \in StringDatatypes   -> Range(STR_empty, STR_empty)

\* The ranges offered to add_range_unsafe (well formed or not, inside the
\* bounds or not: the call is unchecked).
InputRanges(D) ==
  CASE D \in IntegralDatatypes ->
         { Range(1, 3), Range(4, 5), Range(5, 6), Range(1, 2), Range(4, 4),
           Range(4, 3), Range(1, 5),
           Range(3, numeric_limits_max(CppType(D))),
           Range(numeric_limits_min(CppType(D)), 2) }
    [] D \in FloatDatatypes ->
         { Range(-2, 2), Range(2, 3), Range(2, 2), Range(3, 4), Range(-4, 4) }
    [] D \in StringDatatypes ->
         { Range(STR_cat, STR_dog), Range(STR_ax, STR_bird),
           Range(STR_ax, STR_a), Range(STR_a, STR_ax),
           Range(STR_empty, STR_empty) }

Last(s) == s[Len(s)]

Front(s) == SubSeq(s, 1, Len(s) - 1)

(***************************************************************************)
(* Add strategies of RangeSubset (range_subset.h).                         *)
(***************************************************************************)
\* contiguous_after without the "+ 1": ranges that share an end point.
contiguous_after_touching(T, last_range, new_range) ==
  /\ last_range.end # numeric_limits_max(T)
  /\ last_range.end = new_range.start

\* contiguous_after with ">=" for "==": any range starting at or before the
\* successor of the last end.
contiguous_after_overlap(T, last_range, new_range) ==
  /\ last_range.end # numeric_limits_max(T)
  /\ last_range.end + 1 >= new_range.start

\* contiguous_after without the test against the maximum, the successor
\* taken modulo 2^w: the successor of the maximum is the minimum.
contiguous_after_wrapping(T, last_range, new_range) ==
  new_range.start = IF last_range.end = numeric_limits_max(T)
                      THEN numeric_limits_min(T)
                      ELSE last_range.end + 1

\* The test `contiguous_after` of the coalescing strategies.  `end + 1` is
\* evaluated only when end is not the maximum (&& short-circuits), and for
\* the types narrower than int it is evaluated in int.
contiguous_after(T, last_range, new_range) ==
  /\ last_range.end # numeric_limits_max(T)
  /\ last_range.end + 1 = new_range.start

\* AddStrategy whose coalescing specialization is selected for every T and
\* merges a range that starts where the last one ends.
AddStrategy_add_range_anytype(Coalesce, T, ranges, new_range) ==
  IF Coalesce /\ ranges # <<>> /\ Last(ranges).end = new_range.start
    THEN [ranges |-> Append(Front(ranges),
                       Range(Last(ranges).start, new_range.end)),
          status |-> "Ok"]
    ELSE [ranges |-> Append(ranges, new_range), status |-> "Ok"]

\* The coalescing specialization that drops a contiguous range instead of
\* extending the last range to its end.
AddStrategy_add_range_keepend(Coalesce, T, ranges, new_range) ==
  IF Coalesce /\ is_integral(T) /\ ranges # <<>>
       /\ contiguous_after(T, Last(ranges), new_range)
    THEN [ranges |-> ranges, status |-> "Ok"]
    ELSE [ranges |-> Append(ranges, new_range), status |-> "Ok"]

\* AddStrategy<Coalesce, T>::add_range: the integral coalescing
\* specialization when Coalesce and T is integral, the default otherwise.
AddStrategy_add_range(Coalesce, T, ranges, new_range) ==
  IF Coalesce /\ is_integral(T)
    THEN IF ranges = <<>>
           THEN [ranges |-> Append(ranges, new_range), status |-> "Ok"]
           ELSE IF contiguous_after(T, Last(ranges), new_range)
                  THEN [ranges |-> Append(Front(ranges),
                                     Range(Last(ranges).start, new_range.end)),
                        status |-> "Ok"]
                  ELSE [ranges |-> Append(ranges, new_range), status |-> "Ok"]
    ELSE [ranges |-> Append(ranges, new_range), status |-> "Ok"]

\* add_range_unsafe that coalesces with the first stored range the new one
\* is contiguous to, wherever it is in the sequence.
Internals_add_range_unsafe_anywhere(impl, ranges, new_range) ==
  LET hits == {i \in 1..Len(ranges) :
                 impl.CoalesceAdds /\ is_integral(impl.T)
                   /\ contiguous_after(impl.T, ranges[i], new_range)}
  IN IF hits = {}
       THEN [ranges |-> Append(ranges, new_range), status |-> "Ok"]
       ELSE LET i == CHOOSE h \in hits : \A g \in hits : h <= g
            IN [ranges |-> [ranges EXCEPT ![i] = Range(ranges[i].start, new_range.end)],
                status |-> "Ok"]

\* RangeSubsetInternalsImpl<T, D, CoalesceAdds>::add_range_unsafe.
Internals_add_range_unsafe(impl, ranges, new_range) ==
  AddStrategy_add_range(impl.CoalesceAdds, impl.T, ranges, new_range)

(***************************************************************************)
(* Sort strategies of RangeSubset (range_subset.h).                        *)
(***************************************************************************)
\* The arithmetic comparator without its tie-break on the end.
ArithmeticLess_startonly(a, b) == a.start < b.start

\* The comparator of the arithmetic SortStrategy: a_data[0] is the start of
\* the range and a_data[1] its end.
ArithmeticLess(a, b) ==
  \/ a.start < b.start
  \/ (a.start = b.start /\ a.end < b.end)

\* operator< of std::string: lexicographic comparison of the bytes, a proper
\* prefix being smaller.
RECURSIVE string_less(_, _)
string_less(x, y) ==
  IF y = <<>> THEN FALSE
  ELSE IF x = <<>> THEN TRUE
  ELSE IF Head(x) < Head(y) THEN TRUE
  ELSE IF Head(y) < Head(x) THEN FALSE
  ELSE string_less(Tail(x), Tail(y))

\* The string comparator without its tie-break on end_str.
StringLess_startonly(a, b) == string_less(a.start, b.start)

\* The comparator of SortStrategy<STRING_ASCII, std::string, std::string>.
StringLess(a, b) ==
  \/ string_less(a.start, b.start)
  \/ (a.start = b.start /\ string_less(a.end, b.end))

\* The comparator handed to parallel_sort by the strategy named cmp.
RangeLess(cmp, a, b) ==
  IF cmp = "arithmetic" THEN ArithmeticLess(a, b) ELSE StringLess(a, b)

\* Inserts x into s after every element that is not greater than x.
RECURSIVE SortedInsert(_, _, _)
SortedInsert(cmp, x, s) ==
  IF s = <<>> THEN <<x>>
  ELSE IF RangeLess(cmp, x, Head(s)) THEN <<x>> \o s
  ELSE <<Head(s)>> \o SortedInsert(cmp, x, Tail(s))

\* parallel_sort(tp, begin, end, cmp): sorts the sequence by cmp and returns
\* when the sort is complete.
RECURSIVE parallel_sort(_, _)
parallel_sort(cmp, s) ==
  IF s = <<>> THEN <<>>
  ELSE SortedInsert(cmp, Last(s), parallel_sort(cmp, Front(s)))

\* The selection without the char specialization: char is arithmetic.
SortStrategy_select_nochar(D, T) ==
  IF is_arithmetic(T) THEN "arithmetic"
  ELSE IF D = "STRING_ASCII" /\ T = "std::string" THEN "string"
  ELSE "unsortable"

\* The specialization of SortStrategy<D, T> the compiler selects.
SortStrategy_select(D, T) ==
  IF T = "char" THEN "unsortable"
  ELSE IF is_arithmetic(T) THEN "arithmetic"
  ELSE IF D = "STRING_ASCII" /\ T = "std::string" THEN "string"
  ELSE "unsortable"

\* SortStrategy<D, T>::sort.
SortStrategy_sort(D, T, ranges) ==
  IF SortStrategy_select(D, T) = "unsortable"
    THEN [ranges |-> ranges, status |-> "SubarrayError"]
    ELSE [ranges |-> parallel_sort(SortStrategy_select(D, T), ranges),
          status |-> "Ok"]

\* RangeSubsetInternalsImpl<T, D, CoalesceAdds>::sort_ranges.
Internals_sort_ranges(impl, ranges) == SortStrategy_sort(impl.D, impl.T, ranges)

(***************************************************************************)
(* RangeSubset (range_subset.h, range_subset.cc).                          *)
(***************************************************************************)
\* range_subset_internals(datatype, coalesce_ranges).
range_subset_internals(D, coalesce_ranges) ==
  [T |-> CppType(D), D |-> D, CoalesceAdds |-> coalesce_ranges]

\* The constructor without the emplace_back of the full range.
RangeSubset_ctor_empty(D, full_range, is_default, coalesce_ranges) ==
  [impl_       |-> range_subset_internals(D, coalesce_ranges),
   full_range_ |-> full_range,
   is_default_ |-> is_default,
   ranges_     |-> <<>>]

\* The constructor emplacing the full range whatever is_default is.
RangeSubset_ctor_always(D, full_range, is_default, coalesce_ranges) ==
  [impl_       |-> range_subset_internals(D, coalesce_ranges),
   full_range_ |-> full_range,
   is_default_ |-> is_default,
   ranges_     |-> <<full_range>>]

\* RangeSubset() = default: the member initializers of the class.
RangeSubset_default_ctor ==
  [impl_ |-> "nullptr", full_range_ |-> NoRange, is_default_ |-> TRUE, ranges_ |-> <<>>]

\* RangeSubset::RangeSubset(datatype, full_range, is_default, coalesce_ranges).
RangeSubset_ctor(D, full_range, is_default, coalesce_ranges) ==
  [impl_       |-> range_subset_internals(D, coalesce_ranges),
   full_range_ |-> full_range,
   is_default_ |-> is_default,
   ranges_     |-> IF is_default THEN <<full_range>> ELSE <<>>]

\* add_range_unsafe that refuses an arithmetic range reaching outside the
\* bounds of the subset.
RangeSubset_add_range_unsafe_checked(impl, is_default, ranges, range) ==
  IF is_arithmetic(impl.T)
       /\ (range.start < full_range_.start \/ range.end > full_range_.end)
    THEN [ranges_ |-> ranges, is_default_ |-> is_default, status |-> "Error"]
    ELSE LET cleared == IF is_default THEN <<>> ELSE ranges
             res     == Internals_add_range_unsafe(impl, cleared, range)
         IN  [ranges_ |-> res.ranges, is_default_ |-> FALSE, status |-> res.status]

\* add_range_unsafe that clears the default range and leaves is_default_.
RangeSubset_add_range_unsafe_keepdefault(impl, is_default, ranges, range) ==
  LET cleared == IF is_default THEN <<>> ELSE ranges
      res     == Internals_add_range_unsafe(impl, cleared, range)
  IN  [ranges_ |-> res.ranges, is_default_ |-> is_default, status |-> res.status]

\* add_range_unsafe without the ranges_.clear() of the default case.
RangeSubset_add_range_unsafe_noclear(impl, is_default, ranges, range) ==
  LET res == Internals_add_range_unsafe(impl, ranges, range)
  IN  [ranges_ |-> res.ranges, is_default_ |-> FALSE, status |-> res.status]

\* RangeSubset::add_range_unsafe(range): the object's fields after the call
\* and the Status returned.
RangeSubset_add_range_unsafe(impl, is_default, ranges, range) ==
  LET cleared == IF is_default THEN <<>> ELSE ranges
      res     == Internals_add_range_unsafe(impl, cleared, range)
  IN  [ranges_ |-> res.ranges, is_default_ |-> FALSE, status |-> res.status]

RECURSIVE coalesce_sorted(_, _)
\* The ranges of s with every range that starts right after the end of the
\* one before it merged into it.
coalesce_sorted(T, s) ==
  IF Len(s) < 2 THEN s
  ELSE LET front == coalesce_sorted(T, Front(s))
       IN IF contiguous_after(T, Last(front), Last(s))
            THEN Append(Front(front), Range(Last(front).start, Last(s).end))
            ELSE Append(front, Last(s))

\* sort_ranges that coalesces the integral ranges it has sorted.
RangeSubset_sort_ranges_merging(impl, ranges) ==
  LET res == Internals_sort_ranges(impl, ranges)
  IN IF res.status = "Ok" /\ is_integral(impl.T)
       THEN [ranges |-> coalesce_sorted(impl.T, res.ranges), status |-> "Ok"]
       ELSE res

\* RangeSubset::sort_ranges(compute_tp).
RangeSubset_sort_ranges(impl, ranges) == Internals_sort_ranges(impl, ranges)

\* The observers of RangeSubset.
num_ranges == Len(ranges_)

is_default == is_default_

is_empty == ranges_ = <<>>

get_range(i) == ranges_[i + 1]

\* Range::unary(): the range is a single point, start == end.
Range_unary(r) == r.start = r.end

\* is_set() without the test of ranges_.empty().
is_set_ignoring_empty == ~is_default_

is_set == ~is_default_ /\ ~(ranges_ = <<>>)

is_unary == IF Len(ranges_) # 1 THEN FALSE ELSE Range_unary(ranges_[1])

(***************************************************************************)
(* DimensionRangeManager<T> (range_manager.h).                             *)
(***************************************************************************)
\* BasicAddStrategy::add_range.
BasicAddStrategy_add_range(ranges, new_range) == Append(ranges, new_range)

\* CoalescingAddStrategy<T>::add_range: the integral specialization
\* coalesces, the floating point and std::string ones append.
CoalescingAddStrategy_add_range(T, ranges, new_range) ==
  IF is_integral(T)
    THEN IF /\ Last(ranges).end # numeric_limits_max(T)
            /\ Last(ranges).end + 1 = new_range.start
           THEN Append(Front(ranges), Range(Last(ranges).start, new_range.end))
           ELSE Append(ranges, new_range)
    ELSE Append(ranges, new_range)

\* DimensionRangeManager(bounds): the default manager.
DimensionRangeManager_ctor_default(bounds) ==
  [bounds_ |-> bounds, is_default_ |-> TRUE, add_strategy_ |-> "nullptr",
   ranges_ |-> <<bounds>>]

\* DimensionRangeManager(bounds, allow_adding, coalesce_ranges).
DimensionRangeManager_ctor(bounds, allow_adding, coalesce_ranges) ==
  [bounds_ |-> bounds, is_default_ |-> FALSE,
   add_strategy_ |-> IF allow_adding
                       THEN IF coalesce_ranges THEN "CoalescingAddStrategy"
                                               ELSE "BasicAddStrategy"
                       ELSE "nullptr",
   ranges_ |-> <<>>]

\* assert(!(ranges.empty())) at the top of the integral
\* CoalescingAddStrategy<T>::add_range; the other strategies assert nothing.
CoalescingAddStrategy_assert(T, ranges) ==
  IF ~is_integral(T) THEN "not evaluated"
  ELSE IF ranges # <<>> THEN "holds"
  ELSE "fails"

\* add_range_unsafe that consults the strategy without looking at
\* ranges_.empty() first. The strategy called on an empty vector fails its
\* assertion; the range is stored.
DimensionRangeManager_add_range_unsafe_noempty(T, add_strategy, ranges, range) ==
  IF add_strategy = "nullptr"
    THEN [ranges_ |-> Append(ranges, range), status |-> "Ok",
          assertion |-> "not evaluated"]
  ELSE IF add_strategy = "CoalescingAddStrategy"
    THEN [ranges_ |-> IF ranges = <<>> THEN <<range>>
                      ELSE CoalescingAddStrategy_add_range(T, ranges, range),
          status |-> "Ok",
          assertion |-> CoalescingAddStrategy_assert(T, ranges)]
  ELSE [ranges_ |-> BasicAddStrategy_add_range(ranges, range), status |-> "Ok",
        assertion |-> "not evaluated"]

\* DimensionRangeManager<T>::add_range_unsafe(range): the ranges after the
\* call, the Status returned and what became of the assertion of the
\* strategy, if the call reached it.
DimensionRangeManager_add_range_unsafe(T, add_strategy, ranges, range) ==
  IF ranges = <<>>
    THEN [ranges_ |-> Append(ranges, range), status |-> "Ok",
          assertion |-> "not evaluated"]
  ELSE IF add_strategy = "nullptr"
    THEN [ranges_ |-> Append(ranges, range), status |-> "Ok",
          assertion |-> "not evaluated"]
  ELSE IF add_strategy = "CoalescingAddStrategy"
    THEN [ranges_ |-> CoalescingAddStrategy_add_range(T, ranges, range),
          status |-> "Ok",
          assertion |-> CoalescingAddStrategy_assert(T, ranges)]
  ELSE [ranges_ |-> BasicAddStrategy_add_range(ranges, range), status |-> "Ok",
        assertion |-> "not evaluated"]

(***************************************************************************)
(* The state machine.                                                      *)
(***************************************************************************)
Constructed ==
  [op |-> "ctor", range |-> NoRange, status |-> "Ok", assertion |-> "not evaluated"]

\* A RangeSubset built by the four-argument constructor.
InitRangeSubset ==
  \E D \in Datatypes, dflt \in BOOLEAN, coalesce \in BOOLEAN :
    LET obj == RangeSubset_ctor(D, FullRange(D), dflt, coalesce) IN
      /\ cls = "RangeSubset"
      /\ ctor = [is_default |-> dflt, coalesce_ranges |-> coalesce,
                 allow_adding |-> TRUE]
      /\ datatype = D
      /\ impl_ = obj.impl_
      /\ add_strategy_ = "unused"
      /\ full_range_ = obj.full_range_
      /\ is_default_ = obj.is_default_
      /\ ranges_ = obj.ranges_

\* A RangeSubset built by the default constructor. Its impl_ is null:
\* add_range_unsafe and sort_ranges dereference it, so no call on this
\* object has a state after it.
InitDefaultRangeSubset ==
  LET obj == RangeSubset_default_ctor IN
    /\ cls = "RangeSubset()"
    /\ ctor = [is_default |-> TRUE, coalesce_ranges |-> FALSE, allow_adding |-> TRUE]
    /\ datatype = "none"
    /\ impl_ = obj.impl_
    /\ add_strategy_ = "unused"
    /\ full_range_ = obj.full_range_
    /\ is_default_ = obj.is_default_
    /\ ranges_ = obj.ranges_

\* A DimensionRangeManager built by DimensionRangeManager(bounds).
InitDefaultManager ==
  \E D \in Datatypes :
    LET obj == DimensionRangeManager_ctor_default(FullRange(D)) IN
      /\ cls = "DimensionRangeManager"
      /\ ctor = [is_default |-> TRUE, coalesce_ranges |-> FALSE,
                 allow_adding |-> FALSE]
      /\ datatype = D
      /\ impl_ = "unused"
      /\ add_strategy_ = obj.add_strategy_
      /\ full_range_ = obj.bounds_
      /\ is_default_ = obj.is_default_
      /\ ranges_ = obj.ranges_

\* A DimensionRangeManager built by
\* DimensionRangeManager(bounds, allow_adding, coalesce_ranges).
InitManager ==
  \E D \in Datatypes, allow_adding \in BOOLEAN, coalesce \in BOOLEAN :
    LET obj == DimensionRangeManager_ctor(FullRange(D), allow_adding, coalesce) IN
      /\ cls = "DimensionRangeManager"
      /\ ctor = [is_default |-> FALSE, coalesce_ranges |-> coalesce,
                 allow_adding |-> allow_adding]
      /\ datatype = D
      /\ impl_ = "unused"
      /\ add_strategy_ = obj.add_strategy_
      /\ full_range_ = obj.bounds_
      /\ is_default_ = obj.is_default_
      /\ ranges_ = obj.ranges_

Init ==
  /\ InitRangeSubset \/ InitDefaultRangeSubset \/ InitDefaultManager \/ InitManager
  /\ last_call = Constructed
  /\ pre = [ranges_ |-> <<>>, is_default_ |-> TRUE]
  /\ nadds = 0
  /\ UriUnused /\ QueriesUnused /\ CancelUnused /\ OpenUnused /\ XlockUnused /\ MetaUnused

\* A call of RangeSubset::add_range_unsafe.
AddRangeUnsafe ==
  /\ cls = "RangeSubset"
  /\ nadds < MaxAdds
  /\ \E range \in InputRanges(datatype) :
       LET res == RangeSubset_add_range_unsafe(impl_, is_default_, ranges_, range) IN
         /\ ranges_' = res.ranges_
         /\ is_default_' = res.is_default_
         /\ last_call' = [op |-> "add", range |-> range, status |-> res.status,
                          assertion |-> "not evaluated"]
  /\ pre' = [ranges_ |-> ranges_, is_default_ |-> is_default_]
  /\ nadds' = nadds + 1
  /\ UNCHANGED <<cls, ctor, datatype, impl_, add_strategy_, full_range_>>
  /\ UNCHANGED <<uriVars, queryVars, cancelVars, openVars,
                 xlockVars, metaVars>>

\* A call of RangeSubset::sort_ranges.
SortRanges ==
  /\ cls = "RangeSubset"
  /\ LET res == RangeSubset_sort_ranges(impl_, ranges_) IN
       /\ ranges_' = res.ranges
       /\ last_call' = [op |-> "sort", range |-> NoRange, status |-> res.status,
                        assertion |-> "not evaluated"]
  /\ pre' = [ranges_ |-> ranges_, is_default_ |-> is_default_]
  /\ UNCHANGED <<cls, ctor, datatype, impl_, add_strategy_, full_range_, is_default_,
                 nadds>>
  /\ UNCHANGED <<uriVars, queryVars, cancelVars, openVars,
                 xlockVars, metaVars>>

\* A call of DimensionRangeManager<T>::add_range_unsafe.
ManagerAddRangeUnsafe ==
  /\ cls = "DimensionRangeManager"
  /\ nadds < MaxAdds
  /\ \E range \in InputRanges(datatype) :
       LET res == DimensionRangeManager_add_range_unsafe(
                    CppType(datatype), add_strategy_, ranges_, range) IN
         /\ ranges_' = res.ranges_
         /\ last_call' = [op |-> "add", range |-> range, status |-> res.status,
                          assertion |-> res.assertion]
  /\ pre' = [ranges_ |-> ranges_, is_default_ |-> is_default_]
  /\ nadds' = nadds + 1
  /\ UNCHANGED <<cls, ctor, datatype, impl_, add_strategy_, full_range_, is_default_>>
  /\ UNCHANGED <<uriVars, queryVars, cancelVars, openVars,
                 xlockVars, metaVars>>

Next == AddRangeUnsafe \/ SortRanges \/ ManagerAddRangeUnsafe

Spec == Init /\ [][Next]_vars

(***************************************************************************)
(* Vocabulary of the properties.                                           *)
(***************************************************************************)
\* c is the value that immediately follows b.
IsSuccessor(b, c) == c > b /\ c - b = 1

\* The last call was add_range_unsafe / sort_ranges.
Added == last_call.op = "add"

Sorted == last_call.op = "sort"

\* x <= y in the lexicographic order of bytes: x is a prefix of y, or they
\* first differ at a byte that is smaller in x.
BytesLeq(x, y) ==
  \E k \in 0..Len(x) :
    /\ k <= Len(y)
    /\ \A i \in 1..k : x[i] = y[i]
    /\ \/ k = Len(x)
       \/ (k < Len(y) /\ x[k + 1] < y[k + 1])

\* The datatypes whose element type selects the arithmetic sort strategy.
NumericDatatypes == (IntegralDatatypes \ {"CHAR"}) \cup FloatDatatypes

UnsortableDatatypes == {"CHAR", "STRING_UTF16", "STRING_UTF32", "STRING_UCS2",
                        "STRING_UCS4"}

\* The call just made added to a non-default, non-empty sequence of an
\* integral type, built with coalesce_ranges, a range that starts right
\* after the end of the last stored range.
ContiguousAdd ==
  /\ Added
  /\ datatype \in IntegralDatatypes
  /\ ctor.coalesce_ranges
  /\ ~pre.is_default_
  /\ pre.ranges_ # <<>>
  /\ Last(pre.ranges_).end # numeric_limits_max(CppType(datatype))
  /\ IsSuccessor(Last(pre.ranges_).end, last_call.range.start)

\* The call just made extended the last stored range [a,b] to [a,d].
Coalesced ==
  /\ Len(ranges_) = Len(pre.ranges_)
  /\ Front(ranges_) = Front(pre.ranges_)
  /\ Last(ranges_) = Range(Last(pre.ranges_).start, last_call.range.end)

\* The call just made appended its argument and changed nothing else.
Appended == ranges_ = Append(pre.ranges_, last_call.range)

NonContiguousAdd ==
  /\ cls = "RangeSubset"
  /\ Added
  /\ datatype \in IntegralDatatypes
  /\ ctor.coalesce_ranges
  /\ pre.ranges_ # <<>>
  /\ ~IsSuccessor(Last(pre.ranges_).end, last_call.range.start)

\* C2 as stated: any non-empty sequence, the implicit default one included.
C2_AsStated ==
  NonContiguousAdd =>
    (Len(ranges_) = Len(pre.ranges_) + 1 /\ Appended)

\* C2 amended: on a non-default subset.
C2_Append ==
  (NonContiguousAdd /\ ~pre.is_default_) =>
    /\ Len(ranges_) = Len(pre.ranges_) + 1
    /\ ranges_[Len(pre.ranges_)] = Last(pre.ranges_)
    /\ Appended

\* [1,3] then [5,6]: a gap, two ranges.
C2_Witness ==
  /\ NonContiguousAdd /\ ~pre.is_default_
  /\ pre.ranges_ = <<Range(1, 3)>>
  /\ last_call.range = Range(5, 6)
  /\ ranges_ = <<Range(1, 3), Range(5, 6)>>

(***************************************************************************)
(* C3.  Float and string element types never coalesce, whatever the        *)
(* coalesce_ranges flag: every add_range_unsafe on a non-default object    *)
(* increases the number of ranges by exactly one.                          *)
(***************************************************************************)
C3_NoCoalesce ==
  ( /\ Added
    /\ datatype \in FloatDatatypes \cup StringDatatypes
    /\ ~pre.is_default_ )
    => (Len(ranges_) = Len(pre.ranges_) + 1 /\ Appended)

\* [-0.5,0.5] then [0.5,0.75] with coalescing requested: two ranges.
C3_Witness ==
  /\ Added
  /\ datatype = "FLOAT32"
  /\ ctor.coalesce_ranges /\ ctor.allow_adding
  /\ pre.ranges_ = <<Range(-2, 2)>>
  /\ last_call.range = Range(2, 3)
  /\ Len(ranges_) = 2

(***************************************************************************)
(* C4.  A RangeSubset constructed as default over bounds B has one range,  *)
(* equal to B, and is_default() is true, for every datatype.               *)
(***************************************************************************)
C4_DefaultCtor ==
  ( /\ cls = "RangeSubset"
    /\ last_call.op = "ctor"
    /\ ctor.is_default )
    => /\ num_ranges = 1
       /\ is_default
       /\ get_range(0) = FullRange(datatype)

C4_Witness ==
  /\ cls = "RangeSubset"
  /\ last_call.op = "ctor"
  /\ ctor.is_default
  /\ datatype = "UINT8"
  /\ ranges_ = <<Range(1, 5)>>

(***************************************************************************)
(* C5.  RangeSubset: after any add_range_unsafe, is_default() is false and *)
(* stays false; the first add on a default subset discards the implicit    *)
(* full-domain range, leaving exactly the added range.                     *)
(***************************************************************************)
C5_NotDefaultAfterAdd ==
  cls = "RangeSubset" =>
    /\ nadds > 0 => ~is_default
    /\ (Added /\ pre.is_default_) => ranges_ = <<last_call.range>>

\* The range added to a default subset is the full bounds themselves.
C5_Witness ==
  /\ cls = "RangeSubset"
  /\ Added
  /\ pre.is_default_
  /\ pre.ranges_ = <<full_range_>>
  /\ last_call.range = full_range_
  /\ ~is_default
  /\ ranges_ = <<full_range_>>

(***************************************************************************)
(* C6.  sort_ranges on a RangeSubset of a non-sortable type (CHAR,         *)
(* STRING_UTF16, STRING_UTF32, STRING_UCS2, STRING_UCS4) returns a non-OK  *)
(* status and leaves the ranges and is_default() as they were.             *)
(***************************************************************************)
C6_Unsortable ==
  (Sorted /\ datatype \in UnsortableDatatypes) =>
    /\ last_call.status # "Ok"
    /\ ranges_ = pre.ranges_
    /\ is_default_ = pre.is_default_

\* A CHAR subset holding two ranges out of order is left out of order.
C6_Witness ==
  /\ Sorted
  /\ datatype = "CHAR"
  /\ last_call.status = "SubarrayError"
  /\ ranges_ = <<Range(4, 5), Range(1, 2)>>

(***************************************************************************)
(* C7.  sort_ranges on a RangeSubset of a numeric type returns OK and      *)
(* leaves the sequence ascending by (start, end).                          *)
(***************************************************************************)
C7_NumericSort ==
  (Sorted /\ datatype \in NumericDatatypes) =>
    /\ last_call.status = "Ok"
    /\ \A i \in 1..(Len(ranges_) - 1) :
         \/ ranges_[i].start < ranges_[i + 1].start
         \/ /\ ranges_[i].start = ranges_[i + 1].start
            /\ ranges_[i].end <= ranges_[i + 1].end
    /\ (pre.ranges_ = <<Range(4, 5), Range(1, 2)>>
          => ranges_ = <<Range(1, 2), Range(4, 5)>>)

C7_Witness ==
  /\ Sorted
  /\ datatype = "UINT16"
  /\ pre.ranges_ = <<Range(4, 5), Range(1, 3), Range(1, 2)>>
  /\ ranges_ = <<Range(1, 2), Range(1, 3), Range(4, 5)>>

(***************************************************************************)
(* C8.  sort_ranges on a STRING_ASCII RangeSubset returns OK and orders    *)
(* the ranges ascending by byte-lexicographic (start_str, end_str).        *)
(***************************************************************************)
C8_AsciiSort ==
  (Sorted /\ datatype = "STRING_ASCII") =>
    /\ last_call.status = "Ok"
    /\ \A i \in 1..(Len(ranges_) - 1) :
         \/ (ranges_[i].start # ranges_[i + 1].start
               /\ BytesLeq(ranges_[i].start, ranges_[i + 1].start))
         \/ (ranges_[i].start = ranges_[i + 1].start
               /\ BytesLeq(ranges_[i].end, ranges_[i + 1].end))
    /\ (pre.ranges_ = <<Range(STR_cat, STR_dog), Range(STR_ax, STR_bird)>>
          => ranges_ = <<Range(STR_ax, STR_bird), Range(STR_cat, STR_dog)>>)

C8_Witness ==
  /\ Sorted
  /\ datatype = "STRING_ASCII"
  /\ pre.ranges_ = <<Range(STR_cat, STR_dog), Range(STR_ax, STR_bird),
                     Range(STR_ax, STR_a)>>
  /\ ranges_ = <<Range(STR_ax, STR_a), Range(STR_ax, STR_bird),
                 Range(STR_cat, STR_dog)>>

(***************************************************************************)
(* C9.  sort_ranges on a STRING_UTF8 RangeSubset is supported: it returns  *)
(* OK and orders the ranges as for STRING_ASCII.                           *)
(***************************************************************************)
C9_Utf8Sort ==
  (Sorted /\ datatype = "STRING_UTF8") =>
    /\ last_call.status = "Ok"
    /\ \A i \in 1..(Len(ranges_) - 1) :
         \/ (ranges_[i].start # ranges_[i + 1].start
               /\ BytesLeq(ranges_[i].start, ranges_[i + 1].start))
         \/ (ranges_[i].start = ranges_[i + 1].start
               /\ BytesLeq(ranges_[i].end, ranges_[i + 1].end))

(***************************************************************************)
(* C10.  A range manager constructed with allow_multiple_ranges            *)
(* (allow_adding) = false holds at most one Range after any sequence of    *)
(* add_range_unsafe calls; an add that would exceed one range is reported  *)
(* as a failure and not stored.                                            *)
(***************************************************************************)
C10_SingleRange ==
  ( /\ cls = "DimensionRangeManager"
    /\ ~ctor.is_default
    /\ ~ctor.allow_adding )
    => /\ Len(ranges_) <= 1
       /\ (Added /\ pre.ranges_ # <<>>)
            => (last_call.status # "Ok" /\ ranges_ = pre.ranges_)

C12_EmptyNotDefault ==
  cls = "RangeSubset" =>
    /\ (last_call.op = "ctor" /\ ~ctor.is_default)
         => (num_ranges = 0 /\ is_empty /\ ~is_default /\ ~is_set)
    /\ ~ctor.is_default => ~is_default
    /\ nadds > 0 => (num_ranges > 0 /\ ~is_empty /\ ~is_default)

\* A subset built empty, filled by two adds that coalesce, then sorted.
C12_Witness ==
  /\ cls = "RangeSubset"
  /\ ~ctor.is_default
  /\ Sorted
  /\ nadds = 2
  /\ num_ranges = 1
  /\ ~is_default

\* The stored ranges the strategy of the last add_range_unsafe call worked
\* on: a default RangeSubset is cleared first.
AddBase == IF cls = "RangeSubset" /\ pre.is_default_ THEN <<>> ELSE pre.ranges_

\* C23: a DimensionRangeManager built by DimensionRangeManager(bounds) is
\* not default after an add_range_unsafe call and holds only the ranges
\* added: one add leaves exactly the added range.
C23_DefaultManagerAdd ==
  (cls = "DimensionRangeManager" /\ ctor.is_default /\ nadds >= 1) =>
    /\ ~is_default_
    /\ (nadds = 1 => ranges_ = <<last_call.range>>)

\* C24: for an integral type, when the last stored range ends at the
\* maximum of the type, add_range_unsafe appends the new range and leaves
\* the last range as it is, whatever the start of the new range.
C24_NoMergeAtMaximum ==
  ( /\ Added
    /\ datatype \in IntegralDatatypes
    /\ AddBase # <<>>
    /\ Last(AddBase).end = numeric_limits_max(CppType(datatype)) )
    => ranges_ = Append(AddBase, last_call.range)

\* A coalescing INT32 subset whose last range ends at 2^31 - 1 was given a
\* range starting at -2^31.
C24_Witness ==
  /\ Added /\ cls = "RangeSubset" /\ datatype = "INT32" /\ ctor.coalesce_ranges
  /\ ~pre.is_default_
  /\ pre.ranges_ = <<Range(3, numeric_limits_max("int32_t"))>>
  /\ last_call.range = Range(numeric_limits_min("int32_t"), 2)
  /\ Len(ranges_) = 2

\* C25: on a non-default RangeSubset, add_range_unsafe leaves every range
\* before the last one unchanged and at its index, and adds at most one
\* range at the end.
C25_OnlyLastTouched ==
  (Added /\ cls = "RangeSubset" /\ ~pre.is_default_) =>
    /\ Len(ranges_) \in {Len(pre.ranges_), Len(pre.ranges_) + 1}
    /\ pre.ranges_ # <<>> => Len(ranges_) >= 1
    /\ \A i \in 1..(Len(pre.ranges_) - 1) : ranges_[i] = pre.ranges_[i]

\* A range contiguous to the first stored range, not to the last, was added
\* to a coalescing subset.
C25_Witness ==
  /\ Added /\ cls = "RangeSubset" /\ datatype \in IntegralDatatypes
  /\ ctor.coalesce_ranges /\ ~pre.is_default_
  /\ pre.ranges_ = <<Range(1, 3), Range(5, 6)>>
  /\ last_call.range = Range(4, 5)
  /\ ranges_ = <<Range(1, 3), Range(5, 6), Range(4, 5)>>

\* C26: RangeSubset::add_range_unsafe returns OK for every range, inside the
\* bounds or not, and stores it: appended, or coalesced into the last range.
C26_NoValidation ==
  (Added /\ cls = "RangeSubset") =>
    /\ last_call.status = "Ok"
    /\ \/ ranges_ = Append(AddBase, last_call.range)
       \/ /\ AddBase # <<>>
          /\ ranges_ = Append(Front(AddBase),
                              Range(Last(AddBase).start, last_call.range.end))

\* A range reaching outside the bounds [1,5] was added.
C26_Witness ==
  /\ Added /\ cls = "RangeSubset" /\ datatype = "UINT8"
  /\ full_range_ = Range(1, 5)
  /\ last_call.range = Range(5, 6)
  /\ last_call.status = "Ok"
  /\ Last(ranges_).end = 6

\* The number of times r occurs in s.
Occurrences(s, r) == Cardinality({i \in 1..Len(s) : s[i] = r})

\* s is ascending by (start, end) in the order of the datatype.
Ascending(s) ==
  \A i \in 1..(Len(s) - 1) :
    IF datatype \in NumericDatatypes
      THEN \/ s[i].start < s[i + 1].start
           \/ (s[i].start = s[i + 1].start /\ s[i].end <= s[i + 1].end)
      ELSE \/ (s[i].start # s[i + 1].start /\ BytesLeq(s[i].start, s[i + 1].start))
           \/ (s[i].start = s[i + 1].start /\ BytesLeq(s[i].end, s[i + 1].end))

\* C27: a sort_ranges that returns OK leaves the multiset of ranges,
\* num_ranges and is_default as they were, and leaves a sequence that was
\* already sorted unchanged.
C27_SortPermutes ==
  (Sorted /\ last_call.status = "Ok") =>
    /\ Len(ranges_) = Len(pre.ranges_)
    /\ \A i \in 1..Len(pre.ranges_) :
         Occurrences(ranges_, pre.ranges_[i]) = Occurrences(pre.ranges_, pre.ranges_[i])
    /\ is_default_ = pre.is_default_
    /\ Ascending(pre.ranges_) => ranges_ = pre.ranges_

\* [4,5] then [1,3] were added to a coalescing subset and sorted: the two
\* contiguous ranges are still two.
C27_Witness ==
  /\ Sorted /\ last_call.status = "Ok" /\ ctor.coalesce_ranges
  /\ datatype = "INT16"
  /\ pre.ranges_ = <<Range(4, 5), Range(1, 3)>>
  /\ ranges_ = <<Range(1, 3), Range(4, 5)>>

WellFormed(r) == r.start <= r.end

\* v is covered by one of the ranges of s.
Covers(s, v) == \E i \in 1..Len(s) : s[i].start <= v /\ v <= s[i].end

\* The values at which the coverage of the ranges of s can change: the
\* bounds of the ranges and the values next to them.
CriticalPoints(T, s) ==
  UNION {{s[i].start, s[i].end}
           \cup (IF s[i].start > numeric_limits_min(T) THEN {s[i].start - 1} ELSE {})
           \cup (IF s[i].end < numeric_limits_max(T) THEN {s[i].end + 1} ELSE {}) :
         i \in 1..Len(s)}

\* C28: on a coalescing RangeSubset of an integral type holding well-formed
\* ranges, add_range_unsafe of a well-formed range makes the values covered
\* the union of those covered before and those of the new range, and
\* num_ranges is at most the number of adds; a malformed range added
\* contiguously sets the end of the last range to its smaller end.
C28_CoverageIsUnion ==
  (cls = "RangeSubset" /\ datatype \in IntegralDatatypes /\ ctor.coalesce_ranges) =>
    /\ ( /\ Added
         /\ WellFormed(last_call.range)
         /\ \A i \in 1..Len(AddBase) : WellFormed(AddBase[i]) )
         => \A v \in CriticalPoints(CppType(datatype),
                                    Append(AddBase, last_call.range) \o ranges_) :
              Covers(ranges_, v) = Covers(Append(AddBase, last_call.range), v)
    /\ ~is_default_ => Len(ranges_) <= nadds
    /\ (ContiguousAdd /\ ~WellFormed(last_call.range))
         => /\ Len(ranges_) = Len(pre.ranges_)
            /\ Last(ranges_).end = last_call.range.end

\* [1,3], [4,4] and [5,6] were added: one range [1,6] covers them.
C28_Witness ==
  /\ Added /\ cls = "RangeSubset" /\ datatype = "INT8" /\ ctor.coalesce_ranges
  /\ nadds = 3
  /\ pre.ranges_ = <<Range(1, 4)>>
  /\ last_call.range = Range(5, 6)
  /\ ranges_ = <<Range(1, 6)>>

\* C29: a RangeSubset built by the four-argument constructor that is
\* default holds exactly its full range, after any add_range_unsafe and
\* sort_ranges calls; only the default-constructed RangeSubset() is default
\* with no range.
C29_DefaultHoldsFullRange ==
  /\ (cls = "RangeSubset" /\ is_default) =>
       (ranges_ = <<full_range_>> /\ full_range_ = FullRange(datatype))
  /\ (cls \in {"RangeSubset", "RangeSubset()"} /\ is_default /\ num_ranges = 0)
       => cls = "RangeSubset()"
  /\ cls = "RangeSubset()" => (is_default /\ num_ranges = 0)

\* A default subset has been sorted and still holds its full range.
C29_Witness ==
  /\ cls = "RangeSubset" /\ Sorted /\ last_call.status = "Ok"
  /\ is_default /\ ranges_ = <<full_range_>>

\* C30: the assertion !ranges.empty() of the integral CoalescingAddStrategy
\* holds on every call DimensionRangeManager::add_range_unsafe makes to the
\* strategy; the add onto an empty sequence does not reach the strategy.
C30_AssertionHolds ==
  (cls = "DimensionRangeManager" /\ Added) =>
    /\ last_call.assertion # "fails"
    /\ pre.ranges_ = <<>> => last_call.assertion = "not evaluated"
    /\ ( /\ pre.ranges_ # <<>>
         /\ add_strategy_ = "CoalescingAddStrategy"
         /\ datatype \in IntegralDatatypes ) => last_call.assertion = "holds"

\* The second add of a coalescing manager reached the strategy.
C30_Witness ==
  /\ cls = "DimensionRangeManager" /\ Added
  /\ add_strategy_ = "CoalescingAddStrategy" /\ datatype = "INT32"
  /\ nadds = 2
  /\ last_call.assertion = "holds"

(***************************************************************************)
(* StorageManager: selection of URIs by timestamp.                         *)
(*                                                                         *)
(* The name of a fragment (or of a schema, of an array-metadata entry, of  *)
(* a .vac manifest) encodes (timestamp_start, timestamp_end, uuid). A URI  *)
(* is the record of the fields of that name, and of whether the name       *)
(* carries the .vac suffix.                                                *)
(***************************************************************************)
MaxUris == 3

URI(t1, t2, uuid, vac) == [name |-> <<t1, t2, uuid>>, vac |-> vac]

Timestamps == 1..3

TimestampWindows == {w \in Timestamps \X Timestamps : w[1] <= w[2]}

UUIDs == {STR_a, STR_ax, STR_bird, STR_cat}

FragmentURIs ==
  {URI(w[1], w[2], u, FALSE) : w \in {<<1, 1>>, <<1, 2>>, <<3, 3>>}, u \in UUIDs}

\* The timestamp range parsed from the name of the URI.
get_timestamp_range(uri) == <<uri.name[1], uri.name[2]>>

\* The UUID parsed from the name of the URI.
get_uuid(uri) == uri.name[3]

TimestampedURI(uri, timestamp_range) == [uri_ |-> uri, timestamp_range_ |-> timestamp_range]

\* The order of TimestampedURI without the tie-break on the UUID.
TimestampedURI_less_notiebreak(a, b) == a.timestamp_range_[1] < b.timestamp_range_[1]

\* The order of TimestampedURI: ascending first timestamp, ties broken by
\* the lexicographic order of the UUID.
TimestampedURI_less(a, b) ==
  \/ a.timestamp_range_[1] < b.timestamp_range_[1]
  \/ /\ a.timestamp_range_[1] = b.timestamp_range_[1]
     /\ string_less(get_uuid(a.uri_), get_uuid(b.uri_))

\* The window test with the bounds of the window excluded.
timestamps_intersect_strict(range, timestamp_start, timestamp_end) ==
  range[1] < timestamp_end /\ range[2] > timestamp_start

\* The range intersects [timestamp_start, timestamp_end], bounds included.
timestamps_intersect(range, timestamp_start, timestamp_end) ==
  range[1] <= timestamp_end /\ range[2] >= timestamp_start

\* The window test that forgets the lower bound.
timestamps_contained_upper(range, timestamp_start, timestamp_end) ==
  range[2] <= timestamp_end

\* The range lies inside [timestamp_start, timestamp_end], bounds included.
timestamps_contained(range, timestamp_start, timestamp_end) ==
  timestamp_start <= range[1] /\ range[2] <= timestamp_end

RECURSIVE InsertTimestampedURI(_, _)
\* std::sort's result, computed by insertion: x goes before the first
\* element that x is less than.
InsertTimestampedURI(s, x) ==
  IF s = <<>> THEN <<x>>
  ELSE IF TimestampedURI_less(x, Head(s)) THEN <<x>> \o s
  ELSE <<Head(s)>> \o InsertTimestampedURI(Tail(s), x)

RECURSIVE sort_timestamped_uris(_)
sort_timestamped_uris(s) ==
  IF s = <<>> THEN <<>>
  ELSE InsertTimestampedURI(sort_timestamped_uris(Front(s)), Last(s))

RECURSIVE filter_uris(_, _, _)
\* The URIs of the listing, in its order, whose timestamp range intersects
\* the window; each with its parsed timestamp range.
filter_uris(uris, timestamp_start, timestamp_end) ==
  IF uris = <<>> THEN <<>>
  ELSE LET uri   == Head(uris)
           range == get_timestamp_range(uri)
           rest  == filter_uris(Tail(uris), timestamp_start, timestamp_end)
       IN IF timestamps_intersect(range, timestamp_start, timestamp_end)
          THEN <<TimestampedURI(uri, range)>> \o rest
          ELSE rest

\* StorageManager::get_sorted_uris
get_sorted_uris(uris, timestamp_start, timestamp_end) ==
  sort_timestamped_uris(filter_uris(uris, timestamp_start, timestamp_end))

VacURIs == {URI(1, 2, STR_ax, TRUE), URI(2, 3, STR_bird, TRUE)}

\* The fragments a .vac manifest of the model may list.
VacListable ==
  {URI(1, 1, STR_a, FALSE), URI(1, 2, STR_ax, FALSE), URI(2, 3, STR_bird, FALSE),
   URI(3, 3, STR_cat, FALSE)}

\* What a .vac manifest may contain: the URIs consolidated together.
VacContents == {c \in SUBSET VacListable : Cardinality(c) <= 1} \cup {VacListable}

is_vacuum_file(uri) == uri.vac

SeqRange(s) == {s[i] : i \in 1..Len(s)}

RECURSIVE select_uris(_, _)
\* The URIs of the listing, in its order, that are in the set.
select_uris(uris, set) ==
  IF uris = <<>> THEN <<>>
  ELSE IF Head(uris) \in set THEN <<Head(uris)>> \o select_uris(Tail(uris), set)
  ELSE select_uris(Tail(uris), set)

\* StorageManager::get_uris_to_vacuum. vac_contents[v] is what the manifest
\* v lists. Returns the URIs to vacuum and the .vac manifests considered.
get_uris_to_vacuum(uris, timestamp_start, timestamp_end, allow_partial, vac_contents) ==
  LET all == SeqRange(uris)
      vac_in_window(v) ==
        IF allow_partial
        THEN timestamps_intersect(get_timestamp_range(v), timestamp_start, timestamp_end)
        ELSE timestamps_contained(get_timestamp_range(v), timestamp_start, timestamp_end)
      vac_files == {v \in all : is_vacuum_file(v) /\ vac_in_window(v)}
      non_vac_uris_set ==
        {u \in all :
           /\ ~is_vacuum_file(u)
           /\ timestamps_contained(get_timestamp_range(u), timestamp_start, timestamp_end)}
      listed == UNION {vac_contents[v] : v \in vac_files}
  IN [status         |-> "Ok",
      uris_to_vacuum |-> select_uris(uris, non_vac_uris_set \cap listed),
      vac_uris       |-> select_uris(uris, vac_files)]

\* The listings of at most MaxUris distinct URIs drawn from the set. A UUID
\* is generated for one fragment: two names share it only when they are the
\* names of a fragment and of its .vac manifest.
Listings(set) ==
  UNION {{s \in [1..n -> set] :
            \A i, j \in 1..n :
              i # j => (s[i] # s[j] /\ (get_uuid(s[i]) = get_uuid(s[j]) => s[i].vac # s[j].vac))} :
         n \in 0..MaxUris}

ListingOrders(n) == {f \in [1..n -> 1..n] : \A i, j \in 1..n : i # j => f[i] # f[j]}

\* A call of get_sorted_uris on a listing, and on the same URIs listed in
\* another order.
InitGetSortedUris ==
  \E uris \in Listings(FragmentURIs), w \in TimestampWindows :
    \E f \in ListingOrders(Len(uris)) :
      uri_args = [fn |-> "get_sorted_uris", uris |-> uris,
                  permuted |-> [i \in 1..Len(uris) |-> uris[f[i]]],
                  timestamp_start |-> w[1], timestamp_end |-> w[2]]

InitGetUrisToVacuum ==
  \E uris \in Listings(VacListable \cup VacURIs), w \in TimestampWindows,
     allow_partial \in BOOLEAN, vac_contents \in [VacURIs -> VacContents] :
      uri_args = [fn |-> "get_uris_to_vacuum", uris |-> uris,
                  timestamp_start |-> w[1], timestamp_end |-> w[2],
                  allow_partial |-> allow_partial, vac_contents |-> vac_contents]

InitURI ==
  /\ InitGetSortedUris \/ InitGetUrisToVacuum
  /\ uri_result = [status |-> "none"]
  /\ RangeUnused /\ QueriesUnused /\ CancelUnused /\ OpenUnused /\ XlockUnused /\ MetaUnused

GetSortedUris ==
  /\ uri_result.status = "none"
  /\ uri_args.fn = "get_sorted_uris"
  /\ uri_result' =
       [status   |-> "Ok",
        sorted   |-> get_sorted_uris(uri_args.uris, uri_args.timestamp_start,
                                     uri_args.timestamp_end),
        permuted |-> get_sorted_uris(uri_args.permuted, uri_args.timestamp_start,
                                     uri_args.timestamp_end)]
  /\ UNCHANGED <<uri_args, rangeVars, queryVars, cancelVars, openVars,
                 xlockVars, metaVars>>

GetUrisToVacuum ==
  /\ uri_result.status = "none"
  /\ uri_args.fn = "get_uris_to_vacuum"
  /\ uri_result' = get_uris_to_vacuum(uri_args.uris, uri_args.timestamp_start,
                                      uri_args.timestamp_end, uri_args.allow_partial,
                                      uri_args.vac_contents)
  /\ UNCHANGED <<uri_args, rangeVars, queryVars, cancelVars, openVars,
                 xlockVars, metaVars>>

NextURI == GetSortedUris \/ GetUrisToVacuum

SpecURI == InitURI /\ [][NextURI]_vars

SortedUrisReturned == uri_args.fn = "get_sorted_uris" /\ uri_result.status = "Ok"

UrisToVacuumReturned == uri_args.fn = "get_uris_to_vacuum" /\ uri_result.status = "Ok"

\* C13: get_sorted_uris returns the URIs in ascending order of first
\* timestamp, URIs of equal first timestamp in lexicographic order of their
\* UUID, and returns the same sequence for every order of the input listing.
C13_SortedDeterministic ==
  SortedUrisReturned =>
    /\ \A i \in 1..(Len(uri_result.sorted) - 1) :
         LET a == uri_result.sorted[i]
             b == uri_result.sorted[i + 1]
         IN \/ a.timestamp_range_[1] < b.timestamp_range_[1]
            \/ /\ a.timestamp_range_[1] = b.timestamp_range_[1]
               /\ BytesLeq(get_uuid(a.uri_), get_uuid(b.uri_))
    /\ uri_result.sorted = uri_result.permuted

\* Two URIs of equal first timestamp, listed with the greater UUID first in
\* one listing and last in the other, are both returned.
C13_Witness ==
  /\ SortedUrisReturned
  /\ uri_args.uris = <<URI(1, 2, STR_ax, FALSE), URI(1, 1, STR_a, FALSE)>>
  /\ uri_args.permuted = <<URI(1, 1, STR_a, FALSE), URI(1, 2, STR_ax, FALSE)>>
  /\ Len(uri_result.sorted) = 2
  /\ uri_result.sorted[1].uri_ = URI(1, 1, STR_a, FALSE)

C15_VacuumInsideWindow ==
  (UrisToVacuumReturned /\ ~uri_args.allow_partial) =>
    \A u \in SeqRange(uri_result.uris_to_vacuum) :
      /\ u.name[1] >= uri_args.timestamp_start
      /\ u.name[2] <= uri_args.timestamp_end
      /\ \E v \in SeqRange(uri_result.vac_uris) : u \in uri_args.vac_contents[v]

\* A manifest inside the window lists a fragment inside the window and a
\* fragment that reaches outside of it; only the first is returned.
C15_Witness ==
  /\ UrisToVacuumReturned /\ ~uri_args.allow_partial
  /\ uri_args.timestamp_start = 1 /\ uri_args.timestamp_end = 2
  /\ uri_args.vac_contents[URI(1, 2, STR_ax, TRUE)] = VacListable
  /\ URI(2, 3, STR_bird, FALSE) \in SeqRange(uri_args.uris)
  /\ uri_result.uris_to_vacuum = <<URI(1, 1, STR_a, FALSE)>>
  /\ uri_result.vac_uris = <<URI(1, 2, STR_ax, TRUE)>>

(***************************************************************************)
(* StorageManager: the count of queries in progress.                       *)
(*                                                                         *)
(* Each query thread runs its queries one after the other, each inside a   *)
(* QueryInProgress scope. Another thread closes the array: it calls        *)
(* wait_for_zero_in_progress and then completes the close. A step that     *)
(* runs under queries_in_progress_mtx_ is one action.                      *)
(***************************************************************************)
NQueries == 2

MaxScopes == 2

MaxWakeups == 2

Queries == 1..NQueries

\* StorageManager::increment_in_progress, under queries_in_progress_mtx_.
increment_in_progress(count) == count + 1

\* decrement_in_progress without the notification of the waiters.
decrement_in_progress_nonotify(count, waiter) ==
  [queries_in_progress_ |-> count - 1, waiter_pc |-> waiter]

\* StorageManager::decrement_in_progress, under queries_in_progress_mtx_:
\* decrements and notifies queries_in_progress_cv_.
decrement_in_progress(count, waiter) ==
  [queries_in_progress_ |-> count - 1,
   waiter_pc |-> IF waiter = "blocked" THEN "woken" ELSE waiter]

\* QueryInProgress::QueryInProgress
QueryInProgress_ctor(count) == increment_in_progress(count)

\* A destructor that decrements only when the scope ends without an error.
QueryInProgress_dtor_ok_only(outcome, count, waiter) ==
  IF outcome = "error"
  THEN [queries_in_progress_ |-> count, waiter_pc |-> waiter]
  ELSE decrement_in_progress(count, waiter)

\* QueryInProgress::~QueryInProgress: runs however the scope is left.
QueryInProgress_dtor(outcome, count, waiter) == decrement_in_progress(count, waiter)

\* queries_in_progress_cv_.wait(lck, pred), with the lock held: the thread
\* returns if the predicate queries_in_progress_ == 0 holds and blocks if not.
cv_wait(count) == IF count = 0 THEN "returned" ELSE "blocked"

InitQueries ==
  /\ queries_in_progress_ = 0
  /\ query_pc = [q \in Queries |-> [pc |-> "idle", scopes |-> 0, last |-> "none"]]
  /\ waiter_pc = "idle"
  /\ wakeups = 0
  /\ RangeUnused /\ UriUnused /\ CancelUnused /\ OpenUnused /\ XlockUnused /\ MetaUnused

\* A query begins: its QueryInProgress is constructed.
QueryBegin(q) ==
  /\ query_pc[q].pc = "idle"
  /\ query_pc[q].scopes < MaxScopes
  /\ queries_in_progress_' = QueryInProgress_ctor(queries_in_progress_)
  /\ query_pc' = [query_pc EXCEPT ![q].pc = "running", ![q].scopes = @ + 1]
  /\ UNCHANGED <<waiter_pc, wakeups, rangeVars, uriVars, cancelVars, openVars,
                 xlockVars, metaVars>>

\* A query ends, by a return or by an error: its QueryInProgress is destroyed.
QueryEnd(q) ==
  /\ query_pc[q].pc = "running"
  /\ \E outcome \in {"ok", "error"} :
       LET r == QueryInProgress_dtor(outcome, queries_in_progress_, waiter_pc)
       IN /\ queries_in_progress_' = r.queries_in_progress_
          /\ waiter_pc' = r.waiter_pc
          /\ query_pc' = [query_pc EXCEPT ![q].pc = "idle", ![q].last = outcome]
  /\ UNCHANGED <<wakeups, rangeVars, uriVars, cancelVars, openVars,
                 xlockVars, metaVars>>

\* The closing thread calls wait_for_zero_in_progress.
WaitForZeroInProgress ==
  /\ waiter_pc = "idle"
  /\ waiter_pc' = cv_wait(queries_in_progress_)
  /\ UNCHANGED <<queries_in_progress_, query_pc, wakeups, rangeVars, uriVars,
                 cancelVars, openVars,
                 xlockVars, metaVars>>

\* std::condition_variable::wait may wake up without a notification.
SpuriousWakeup ==
  /\ waiter_pc = "blocked"
  /\ waiter_pc' = "woken"
  /\ UNCHANGED <<queries_in_progress_, query_pc, wakeups, rangeVars, uriVars,
                 cancelVars, openVars,
                 xlockVars, metaVars>>

\* The woken thread takes the lock again and tests the predicate.
WaitRecheck ==
  /\ waiter_pc = "woken"
  /\ waiter_pc' = cv_wait(queries_in_progress_)
  /\ wakeups' = IF waiter_pc' = "blocked" /\ wakeups < MaxWakeups
                THEN wakeups + 1 ELSE wakeups
  /\ UNCHANGED <<queries_in_progress_, query_pc, rangeVars, uriVars, cancelVars,
                 openVars,
                 xlockVars, metaVars>>

\* array_close_for_reads / array_close_for_writes completes after
\* wait_for_zero_in_progress returned.
ArrayCloseComplete ==
  /\ waiter_pc = "returned"
  /\ waiter_pc' = "closed"
  /\ UNCHANGED <<queries_in_progress_, query_pc, wakeups, rangeVars, uriVars,
                 cancelVars, openVars,
                 xlockVars, metaVars>>

NextQueries ==
  \/ \E q \in Queries : QueryBegin(q)
  \/ \E q \in Queries : QueryEnd(q)
  \/ WaitForZeroInProgress
  \/ SpuriousWakeup
  \/ WaitRecheck
  \/ ArrayCloseComplete

SpecQueries == InitQueries /\ [][NextQueries]_vars

\* Every query thread that is in a scope leaves it, and the thread in
\* wait_for_zero_in_progress runs when it is woken. No query has to begin and
\* no wake-up without notification has to happen.
SpecQueriesFair ==
  /\ SpecQueries
  /\ \A q \in Queries : WF_vars(QueryEnd(q))
  /\ WF_vars(WaitRecheck)
  /\ WF_vars(ArrayCloseComplete)

LiveScopes == {q \in Queries : query_pc[q].pc = "running"}

\* C16: under every interleaving of the query scopes, queries_in_progress_
\* is the number of scopes that have begun and not ended, however they
\* ended; it is zero once all of them have ended.
C16_CounterIsLiveScopes ==
  /\ queries_in_progress_ = Cardinality(LiveScopes)
  /\ (\A q \in Queries : query_pc[q].pc = "idle") => queries_in_progress_ = 0

\* One scope has ended by an error while another one is live.
C16_Witness ==
  /\ \E q \in Queries : query_pc[q].last = "error" /\ query_pc[q].pc = "idle"
  /\ Cardinality(LiveScopes) = 1
  /\ queries_in_progress_ = 1

C18_WaiterReturns ==
  (waiter_pc = "blocked") ~> (waiter_pc \in {"returned", "closed"})

\* The waiter has been woken, has found a query in progress and blocked
\* again, and has returned afterwards.
C18_Witness ==
  /\ waiter_pc \in {"returned", "closed"}
  /\ wakeups > 0
  /\ \E q \in Queries : query_pc[q].scopes = MaxScopes

(***************************************************************************)
(* StorageManager: opening, reopening and closing arrays.                  *)
(*                                                                         *)
(* An open call resolves the schemas of the array and then its fragments;  *)
(* each load may fail. open_call[a] holds the call in progress on array a  *)
(* with what it has loaded so far; open_result[a] is the tuple the last    *)
(* call on a returned.                                                     *)
(***************************************************************************)
NArrays == 2

Arrays == 1..NArrays

nullopt == "nullopt"

OpenFunctions ==
  {"array_open_for_reads", "array_open_for_reads_without_fragments",
   "array_open_for_writes"}

NoCall ==
  [fn |-> "none", array_schema_latest |-> nullopt, array_schemas_all |-> nullopt,
   fragment_metadata |-> nullopt]

\* The tuple a call returns; fn and failed_in record which call returned it
\* and the state in which it failed.
NoResult ==
  [status |-> "none", array_schema_latest |-> nullopt, array_schemas_all |-> nullopt,
   fragment_metadata |-> nullopt, fn |-> "none", failed_in |-> "none"]

\* A failure that returns what the call had loaded and leaves the array as
\* it was.
open_failure_partial(a, call, state, registry) ==
  [array_state  |-> state,
   open_arrays_ |-> registry,
   open_result  |-> [status |-> "Error",
                     array_schema_latest |-> call.array_schema_latest,
                     array_schemas_all   |-> call.array_schemas_all,
                     fragment_metadata   |-> call.fragment_metadata,
                     fn |-> call.fn, failed_in |-> state]]

\* The failure of a load inside an open or reopen call: the call returns
\* the error Status with every output nullopt, and the array is Closed and
\* not in open_arrays_.
open_failure(a, call, state, registry) ==
  [array_state  |-> "Closed",
   open_arrays_ |-> registry \ {a},
   open_result  |-> [status |-> "Error", array_schema_latest |-> nullopt,
                     array_schemas_all |-> nullopt, fragment_metadata |-> nullopt,
                     fn |-> call.fn, failed_in |-> state]]

\* The end of an open or reopen call whose loads all succeeded: the array
\* is marked open and the loaded objects are returned.
open_success(a, call, registry) ==
  [array_state  |-> "Open",
   open_arrays_ |-> registry \cup {a},
   open_result  |-> [status |-> "Ok",
                     array_schema_latest |-> call.array_schema_latest,
                     array_schemas_all   |-> call.array_schemas_all,
                     fragment_metadata   |-> call.fragment_metadata,
                     fn |-> call.fn, failed_in |-> "none"]]

InitOpen ==
  /\ array_state = [a \in Arrays |-> "Closed"]
  /\ open_arrays_ = {}
  /\ open_call = [a \in Arrays |-> NoCall]
  /\ open_result = [a \in Arrays |-> NoResult]
  /\ RangeUnused /\ UriUnused /\ QueriesUnused /\ CancelUnused /\ XlockUnused /\ MetaUnused

\* The call returns: r is the array state, the registry and the tuple.
OpenReturn(a, r) ==
  /\ array_state' = [array_state EXCEPT ![a] = r.array_state]
  /\ open_arrays_' = r.open_arrays_
  /\ open_result' = [open_result EXCEPT ![a] = r.open_result]
  /\ open_call' = [open_call EXCEPT ![a] = NoCall]

\* array_open_for_reads, array_open_for_reads_without_fragments or
\* array_open_for_writes is called on a closed array.
ArrayOpen(a) ==
  /\ array_state[a] = "Closed"
  /\ \E fn \in OpenFunctions : open_call' = [open_call EXCEPT ![a] = [NoCall EXCEPT !.fn = fn]]
  /\ array_state' = [array_state EXCEPT ![a] = "ResolvingSchemas"]
  /\ open_result' = [open_result EXCEPT ![a] = NoResult]
  /\ UNCHANGED <<open_arrays_, rangeVars, uriVars, queryVars, cancelVars,
                 xlockVars, metaVars>>

\* array_reopen is called on an array open for reads.
ArrayReopen(a) ==
  /\ array_state[a] = "Open"
  /\ open_result[a].fragment_metadata # nullopt
  /\ open_call' = [open_call EXCEPT ![a] = [NoCall EXCEPT !.fn = "array_reopen"]]
  /\ array_state' = [array_state EXCEPT ![a] = "ResolvingFragments"]
  /\ open_result' = [open_result EXCEPT ![a] = NoResult]
  /\ UNCHANGED <<open_arrays_, rangeVars, uriVars, queryVars, cancelVars,
                 xlockVars, metaVars>>

\* Resolving-Schemas, first load: the latest schema.
LoadLatestSchema(a) ==
  /\ array_state[a] = "ResolvingSchemas"
  /\ open_call[a].array_schema_latest = nullopt
  /\ \E ok \in BOOLEAN :
       IF ok
       THEN /\ open_call' = [open_call EXCEPT ![a].array_schema_latest = "latest"]
            /\ UNCHANGED <<array_state, open_arrays_, open_result>>
       ELSE OpenReturn(a, open_failure(a, open_call[a], array_state[a], open_arrays_))
  /\ UNCHANGED <<rangeVars, uriVars, queryVars, cancelVars,
                 xlockVars, metaVars>>

\* Resolving-Schemas, second load: load_all_array_schemas. The calls that
\* open without fragments return after it.
LoadAllSchemas(a) ==
  /\ array_state[a] = "ResolvingSchemas"
  /\ open_call[a].array_schema_latest # nullopt
  /\ \E ok \in BOOLEAN :
       LET call == [open_call[a] EXCEPT !.array_schemas_all = "all"]
       IN IF ~ok
          THEN OpenReturn(a, open_failure(a, open_call[a], array_state[a], open_arrays_))
          ELSE IF call.fn = "array_open_for_reads"
          THEN /\ open_call' = [open_call EXCEPT ![a] = call]
               /\ array_state' = [array_state EXCEPT ![a] = "ResolvingFragments"]
               /\ UNCHANGED <<open_arrays_, open_result>>
          ELSE OpenReturn(a, open_success(a, call, open_arrays_))
  /\ UNCHANGED <<rangeVars, uriVars, queryVars, cancelVars,
                 xlockVars, metaVars>>

\* Resolving-Fragments: the fragment metadata is loaded; array_reopen loads
\* the schemas of the new window with it.
LoadFragments(a) ==
  /\ array_state[a] = "ResolvingFragments"
  /\ \E ok \in BOOLEAN :
       LET call == [open_call[a] EXCEPT !.array_schema_latest = "latest",
                                        !.array_schemas_all = "all",
                                        !.fragment_metadata = "fragments"]
       IN IF ok
          THEN OpenReturn(a, open_success(a, call, open_arrays_))
          ELSE OpenReturn(a, open_failure(a, open_call[a], array_state[a], open_arrays_))
  /\ UNCHANGED <<rangeVars, uriVars, queryVars, cancelVars,
                 xlockVars, metaVars>>

\* array_close_for_reads / array_close_for_writes on an open array.
ArrayClose(a) ==
  /\ array_state[a] = "Open"
  /\ array_state' = [array_state EXCEPT ![a] = "Closed"]
  /\ open_arrays_' = open_arrays_ \ {a}
  /\ UNCHANGED <<open_call, open_result, rangeVars, uriVars, queryVars, cancelVars,
                 xlockVars, metaVars>>

NextOpen ==
  \E a \in Arrays :
    \/ ArrayOpen(a)
    \/ ArrayReopen(a)
    \/ LoadLatestSchema(a)
    \/ LoadAllSchemas(a)
    \/ LoadFragments(a)
    \/ ArrayClose(a)

SpecOpen == InitOpen /\ [][NextOpen]_vars

NTasks == 3

MutationsPerTask == 2

Tasks == 1..NTasks

\* A task entry point that does not look at the flag.
task_entry_unchecked(cancellation_in_progress) == "running"

\* The entry point of a task: the flag is tested once, when the task is
\* about to start, and a task that finds it set does not start.
task_entry(cancellation_in_progress) ==
  IF cancellation_in_progress THEN "cancelled" ELSE "running"

\* cancelable_tasks_.cancel_all_tasks(): the tasks still in the queue are
\* dropped; the others are left alone.
drop_pending(tasks) ==
  [t \in Tasks |-> IF tasks[t].st = "pending" THEN [tasks[t] EXCEPT !.st = "cancelled"]
                   ELSE tasks[t]]

\* StorageManager::cancellation_in_progress
cancellation_in_progress == cancellation_in_progress_

InitCancel ==
  /\ cancellation_in_progress_ = FALSE
  /\ task_state = [t \in Tasks |-> [st |-> "unsubmitted", applied |-> 0,
                                    pending_at_cancel |-> FALSE]]
  /\ cancel_pc = "idle"
  /\ mutations = 0
  /\ RangeUnused /\ UriUnused /\ QueriesUnused /\ OpenUnused /\ XlockUnused /\ MetaUnused

\* A task is handed to cancelable_tasks_.
TaskSubmit(t) ==
  /\ task_state[t].st = "unsubmitted"
  /\ task_state' = [task_state EXCEPT ![t].st = "pending"]
  /\ UNCHANGED <<cancellation_in_progress_, cancel_pc, mutations, rangeVars, uriVars,
                 queryVars, openVars,
                 xlockVars, metaVars>>

\* A thread of the pool takes the task from the queue and enters it.
TaskStart(t) ==
  /\ task_state[t].st = "pending"
  /\ task_state' = [task_state EXCEPT ![t].st = task_entry(cancellation_in_progress)]
  /\ UNCHANGED <<cancellation_in_progress_, cancel_pc, mutations, rangeVars, uriVars,
                 queryVars, openVars,
                 xlockVars, metaVars>>

\* A running task applies its next mutation.
TaskMutate(t) ==
  /\ task_state[t].st = "running"
  /\ task_state[t].applied < MutationsPerTask
  /\ task_state' = [task_state EXCEPT ![t].applied = @ + 1]
  /\ mutations' = mutations + 1
  /\ UNCHANGED <<cancellation_in_progress_, cancel_pc, rangeVars, uriVars, queryVars,
                 openVars,
                 xlockVars, metaVars>>

\* A running task that has applied its mutations completes.
TaskComplete(t) ==
  /\ task_state[t].st = "running"
  /\ task_state[t].applied = MutationsPerTask
  /\ task_state' = [task_state EXCEPT ![t].st = "done"]
  /\ UNCHANGED <<cancellation_in_progress_, cancel_pc, mutations, rangeVars, uriVars,
                 queryVars, openVars,
                 xlockVars, metaVars>>

\* cancel_all_tasks, first step, under cancellation_in_progress_mtx_: the
\* flag is set.
CancelAllTasksBegin ==
  /\ cancel_pc = "idle"
  /\ ~cancellation_in_progress_
  /\ cancellation_in_progress_' = TRUE
  /\ cancel_pc' = "cancelling"
  /\ task_state' = [t \in Tasks |->
                      [task_state[t] EXCEPT !.pending_at_cancel = (task_state[t].st = "pending")]]
  /\ UNCHANGED <<mutations, rangeVars, uriVars, queryVars, openVars,
                 xlockVars, metaVars>>

\* cancel_all_tasks, second step: the queued tasks are dropped.
CancelAllTasksDrop ==
  /\ cancel_pc = "cancelling"
  /\ task_state' = drop_pending(task_state)
  /\ cancel_pc' = "dropped"
  /\ UNCHANGED <<cancellation_in_progress_, mutations, rangeVars, uriVars, queryVars,
                 openVars,
                 xlockVars, metaVars>>

\* cancel_all_tasks, last step, under cancellation_in_progress_mtx_: the
\* flag is reset and the call returns.
CancelAllTasksEnd ==
  /\ cancel_pc = "dropped"
  /\ cancellation_in_progress_' = FALSE
  /\ cancel_pc' = "idle"
  /\ UNCHANGED <<task_state, mutations, rangeVars, uriVars, queryVars, openVars,
                 xlockVars, metaVars>>

NextCancel ==
  \/ \E t \in Tasks : TaskSubmit(t)
  \/ \E t \in Tasks : TaskStart(t)
  \/ \E t \in Tasks : TaskMutate(t)
  \/ \E t \in Tasks : TaskComplete(t)
  \/ CancelAllTasksBegin
  \/ CancelAllTasksDrop
  \/ CancelAllTasksEnd

SpecCancel == InitCancel /\ [][NextCancel]_vars

\* The threads of the pool keep running the tasks they have started, and
\* the thread in cancel_all_tasks keeps running. No task has to be
\* submitted or started, and nobody has to call cancel_all_tasks.
SpecCancelFair ==
  /\ SpecCancel
  /\ \A t \in Tasks : WF_vars(TaskMutate(t)) /\ WF_vars(TaskComplete(t))
  /\ WF_vars(CancelAllTasksDrop)
  /\ WF_vars(CancelAllTasksEnd)

\* C20: a task that was waiting to start when cancel_all_tasks set the flag
\* is never started, and is dropped by the time cancel_all_tasks returns; a
\* task that is executing is not cancelled and runs to completion; the
\* mutations applied are never taken back; cancellation_in_progress() is
\* true exactly from the setting of the flag to the return of
\* cancel_all_tasks.
C20_Cancellation ==
  /\ [](\A t \in Tasks :
          task_state[t].pending_at_cancel =>
            /\ task_state[t].st \in {"pending", "cancelled"}
            /\ cancel_pc # "cancelling" => task_state[t].st = "cancelled")
  /\ [](cancellation_in_progress = (cancel_pc # "idle"))
  /\ [][/\ \A t \in Tasks :
             /\ task_state[t].st = "running" => task_state'[t].st \in {"running", "done"}
             /\ (cancellation_in_progress /\ task_state[t].st # "running")
                  => task_state'[t].st # "running"
             /\ task_state'[t].applied >= task_state[t].applied
        /\ mutations' >= mutations]_vars
  /\ \A t \in Tasks : (task_state[t].st = "running") ~> (task_state[t].st = "done")

\* cancel_all_tasks has run and returned: a task that was waiting is
\* cancelled, a task that was executing has completed with its mutations,
\* and a task submitted afterwards is running.
C20_Witness ==
  /\ cancel_pc = "idle" /\ ~cancellation_in_progress
  /\ task_state[1].pending_at_cancel /\ task_state[1].st = "cancelled"
  /\ task_state[2].st = "done" /\ ~task_state[2].pending_at_cancel
  /\ task_state[3].st = "running"
  /\ mutations >= MutationsPerTask

\* ---------------------------------------------------------------------
\* Metadata: the serialized layout and its deserialization
\* ---------------------------------------------------------------------

\* The number of buffers handed to one Metadata::deserialize call.
MaxEntries == 3

\* Buffers are sequences of bytes 0..255; offsets count from 0 as in
\* buffer_metadata<T, n>(p).
Slice(buf, offset, len) == SubSeq(buf, offset + 1, offset + len)

\* A uint32_t stored through buffer_metadata<uint32_t, n>: four bytes, the
\* least significant first. The lengths and counts here are below 2^31.
store_uint32(n) ==
  <<n % 256, (n \div 256) % 256, (n \div 65536) % 256, (n \div 16777216) % 256>>

load_uint32(buf, offset) ==
  buf[offset + 1] + 256 * buf[offset + 2] + 65536 * buf[offset + 3]
    + 16777216 * buf[offset + 4]

\* An int32_t stored through buffer_metadata<int32_t, n>: two's complement,
\* the least significant byte first.
store_int32(v) ==
  <<v % 256, (v \div 256) % 256, (v \div 65536) % 256, (v \div 16777216) % 256>>

\* An int32_t read through a const int32_t* into the value bytes.
load_int32(buf, offset) ==
  buf[offset + 1] + 256 * buf[offset + 2] + 65536 * buf[offset + 3]
    + 16777216 * (IF buf[offset + 4] >= 128 THEN buf[offset + 4] - 256
                                             ELSE buf[offset + 4])

\* A double is its IEEE 754 fields: the sign, the biased exponent, the top
\* four bits of the fraction and its remaining six bytes, the least
\* significant first. This is 1.0.
double_1_0 == [sign |-> 0, exponent |-> 1023, frac_hi |-> 0, frac_lo |-> <<0, 0, 0, 0, 0, 0>>]

\* A double stored through buffer_metadata<double, n>.
store_double(d) ==
  d.frac_lo \o <<(d.exponent % 16) * 16 + d.frac_hi, d.sign * 128 + d.exponent \div 16>>

\* A double read through a const double* into the value bytes.
load_double(buf, offset) ==
  [sign     |-> buf[offset + 8] \div 128,
   exponent |-> (buf[offset + 8] % 128) * 16 + buf[offset + 7] \div 16,
   frac_hi  |-> buf[offset + 7] % 16,
   frac_lo  |-> Slice(buf, offset, 6)]

\* The keys and the values of the entries. The doubles are 1.0, 1.1 and
\* -2.0.
key1 == <<107, 101, 121, 49>>

key2 == <<107, 101, 121, 50>>

key3 == <<107, 51>>

MetadataKeys == {key1, key2, key3}

value1_vector == <<100, 200>>

value2 == <<double_1_0>>

value3 == <<115, 116, 114, 109, 101, 116, 97, 100, 97, 116, 97>>

MetadataValues ==
  {[type |-> "INT32", value |-> value1_vector],
   [type |-> "INT32", value |-> <<-1>>],
   [type |-> "INT32", value |-> <<-2147483647 - 1, 2147483647>>],
   [type |-> "FLOAT64", value |-> value2],
   [type |-> "FLOAT64",
    value |-> <<[sign |-> 0, exponent |-> 1023, frac_hi |-> 1,
                 frac_lo |-> <<154, 153, 153, 153, 153, 153>>],
                [sign |-> 1, exponent |-> 1024, frac_hi |-> 0,
                 frac_lo |-> <<0, 0, 0, 0, 0, 0>>]>>],
   [type |-> "STRING_ASCII", value |-> value3]}

\* An entry is a key with a typed value, or the deletion of a key; a
\* deletion carries a value that nobody reads.
MetadataEntries ==
  {[key |-> k, del |-> 0, type |-> v.type, value |-> v.value] :
     k \in MetadataKeys, v \in MetadataValues}
  \cup {[key |-> k, del |-> 1, type |-> "INT32", value |-> <<-1>>] : k \in MetadataKeys}

\* The value of the enumerator of Datatype that is cast to a char at offset
\* 9 of an entry, and the size in bytes of one value of the type.
datatype_code(type) ==
  CASE type = "INT32" -> 0
    [] type = "FLOAT64" -> 3
    [] type = "STRING_ASCII" -> 11

datatype_of_code(c) ==
  CASE c = 0 -> "INT32"
    [] c = 3 -> "FLOAT64"
    [] c = 11 -> "STRING_ASCII"
    [] OTHER -> "INVALID"

datatype_size(type) ==
  CASE type = "INT32" -> 4
    [] type = "FLOAT64" -> 8
    [] type = "STRING_ASCII" -> 1
    [] OTHER -> 0

RECURSIVE store_values(_, _)
\* The values of an entry as they are stored from offset 14 on: the int32_t
\* one after the other, the doubles one after the other, the characters of
\* the string as memcpy copies them.
store_values(type, value) ==
  IF value = <<>> THEN <<>>
  ELSE (CASE type = "INT32" -> store_int32(Head(value))
          [] type = "FLOAT64" -> store_double(Head(value))
          [] type = "STRING_ASCII" -> <<Head(value)>>)
       \o store_values(type, Tail(value))

\* A serialized_buffer of the test: the key length at offset 0, the key at
\* offset 4, and after the key the deletion flag, the datatype, the number
\* of values and the values.
serialized_buffer(e) ==
  store_uint32(Len(e.key)) \o e.key \o <<e.del>> \o <<datatype_code(e.type)>>
    \o store_uint32(Len(e.value)) \o store_values(e.type, e.value)

\* One buffer read by Metadata::deserialize: the fields at their offsets.
buffer_fields(buf) ==
  LET key_len == load_uint32(buf, 0)
      type    == datatype_of_code(buf[key_len + 6])
      v_num   == load_uint32(buf, key_len + 6)
  IN  [key   |-> Slice(buf, 4, key_len),
       del   |-> buf[key_len + 5],
       type  |-> type,
       v_num |-> v_num,
       v     |-> Slice(buf, key_len + 10, v_num * datatype_size(type))]

\* Metadata::deserialize with the deletion flag never looked at.
RECURSIVE Metadata_deserialize_keepdeleted(_, _)
Metadata_deserialize_keepdeleted(buffs, map) ==
  IF buffs = <<>> THEN map
  ELSE LET f == buffer_fields(Head(buffs))
       IN  Metadata_deserialize_keepdeleted(Tail(buffs),
             [k \in DOMAIN map \cup {f.key} |->
                IF k = f.key THEN [type |-> f.type, v_num |-> f.v_num, v |-> f.v]
                ELSE map[k]])

RECURSIVE Metadata_deserialize(_, _)
\* Metadata::deserialize: the buffers are read in order into the map of the
\* metadata; an entry whose deletion flag is set erases its key, any other
\* entry sets the value of its key.
Metadata_deserialize(buffs, map) ==
  IF buffs = <<>> THEN map
  ELSE LET f == buffer_fields(Head(buffs))
       IN  Metadata_deserialize(Tail(buffs),
             IF f.del # 0 THEN [k \in DOMAIN map \ {f.key} |-> map[k]]
             ELSE [k \in DOMAIN map \cup {f.key} |->
                     IF k = f.key THEN [type |-> f.type, v_num |-> f.v_num, v |-> f.v]
                     ELSE map[k]])

\* Metadata::get(key, &type, &v_num, &v): the type, the number of values and
\* the bytes of the value of a key; of a key without a value, nothing.
Metadata_get(m, key) ==
  IF key \in DOMAIN m.metadata_map_
  THEN [found |-> TRUE, type |-> m.metadata_map_[key].type,
        v_num |-> m.metadata_map_[key].v_num, v |-> m.metadata_map_[key].v]
  ELSE [found |-> FALSE, type |-> "none", v_num |-> 0, v |-> <<>>]

\* The values the caller reads through the typed pointer that get set:
\* *(v1 + i) through a const int32_t*, *(v2 + i) through a const double*,
\* std::string(v3) through a const char*.
read_values(type, v_num, v) ==
  CASE type = "INT32" -> [i \in 1..v_num |-> load_int32(v, 4 * (i - 1))]
    [] type = "FLOAT64" -> [i \in 1..v_num |-> load_double(v, 8 * (i - 1))]
    [] type = "STRING_ASCII" -> [i \in 1..v_num |-> v[i]]
    [] OTHER -> <<>>

InitMeta ==
  /\ meta_entries = <<>>
  /\ metadata_buffs = <<>>
  /\ meta = [status |-> "none"]
  /\ RangeUnused /\ UriUnused /\ QueriesUnused /\ CancelUnused /\ OpenUnused
  /\ XlockUnused

\* An entry is laid out in a buffer and the buffer is pushed to the back of
\* metadata_buffs.
PushBuffer(e) ==
  /\ meta.status = "none"
  /\ Len(metadata_buffs) < MaxEntries
  /\ meta_entries' = Append(meta_entries, e)
  /\ metadata_buffs' = Append(metadata_buffs, serialized_buffer(e))
  /\ UNCHANGED <<meta, rangeVars, uriVars, queryVars, cancelVars, openVars, xlockVars>>

\* Metadata::deserialize(metadata_buffs).
Deserialize ==
  /\ meta.status = "none"
  /\ meta' = [status |-> "Ok",
              metadata_map_ |-> Metadata_deserialize(metadata_buffs, <<>>)]
  /\ UNCHANGED <<meta_entries, metadata_buffs, rangeVars, uriVars, queryVars,
                 cancelVars, openVars, xlockVars>>

NextMeta ==
  \/ \E e \in MetadataEntries : PushBuffer(e)
  \/ Deserialize

SpecMeta == InitMeta /\ [][NextMeta]_vars

\* The entry that gives a key its value: the last entry of the key, unless
\* that entry deletes it.
LastEntry(entries, key) ==
  LET at == {i \in 1..Len(entries) : entries[i].key = key}
  IN  IF at = {} THEN [del |-> 1]
      ELSE entries[CHOOSE i \in at : \A j \in at : j <= i]

\* C22: once the buffers are deserialized, get finds exactly the keys whose
\* last serialized entry is not a deletion, and for each of them the type,
\* the number of values and the values read back through the typed pointer
\* are those that were serialized, for int32, double and string values.
C22_RoundTrip ==
  meta.status = "Ok" =>
    \A key \in MetadataKeys :
      LET e == LastEntry(meta_entries, key)
          g == Metadata_get(meta, key)
      IN  IF e.del # 0 THEN ~g.found
          ELSE /\ g.found
               /\ g.type = e.type
               /\ g.v_num = Len(e.value)
               /\ read_values(g.type, g.v_num, g.v) = e.value

\* The three buffers of the test were deserialized: an int32 entry with two
\* values, a double entry and a string entry.
C22_Witness ==
  /\ meta.status = "Ok"
  /\ meta_entries =
       <<[key |-> key1, del |-> 0, type |-> "INT32", value |-> value1_vector],
         [key |-> key2, del |-> 0, type |-> "FLOAT64", value |-> value2],
         [key |-> key3, del |-> 0, type |-> "STRING_ASCII", value |-> value3]>>
  /\ Len(metadata_buffs[1]) = 22 /\ Len(metadata_buffs[2]) = 22

\* ---------------------------------------------------------------------
\* StorageManager: exclusive access of consolidation and vacuum
\* ---------------------------------------------------------------------

\* The number of changes one consolidation or vacuum makes to the fragment
\* set.
MaxFragmentMutations == 2

\* The array that is consolidated or vacuumed.
XArray == 1

\* xlock_cv_.wait under open_arrays_mtx_: the thread leaves the wait with
\* the array exclusively locked once the array is not open, and blocks as
\* long as it is.
xlock_cv_wait(open_arrays, a) == IF a \in open_arrays THEN "blocked" ELSE "locked"

InitXlock ==
  /\ queries_in_progress_ = 0
  /\ query_pc = [q \in Queries |-> [pc |-> "idle", scopes |-> 0, last |-> "none"]]
  /\ waiter_pc = "idle"
  /\ wakeups = 0
  /\ open_arrays_ = {XArray}
  /\ array_state = "unused" /\ open_call = "unused" /\ open_result = "unused"
  /\ xlocked = FALSE
  /\ xlock_pc = "idle"
  /\ fragments = 0
  /\ RangeUnused /\ UriUnused /\ CancelUnused /\ MetaUnused

\* array_close_for_reads / array_close_for_writes completes after
\* wait_for_zero_in_progress returned: under open_arrays_mtx_ the array
\* leaves open_arrays_ and xlock_cv_ is notified.
ArrayCloseErase ==
  /\ waiter_pc = "returned"
  /\ waiter_pc' = "closed"
  /\ open_arrays_' = open_arrays_ \ {XArray}
  /\ UNCHANGED <<queries_in_progress_, query_pc, wakeups, array_state, open_call,
                 open_result, xlockVars, rangeVars, uriVars, cancelVars, metaVars>>

\* array_open_for_reads / array_open_for_writes of the closed array: under
\* open_arrays_mtx_ the array enters open_arrays_, unless it is exclusively
\* locked.
ArrayOpenAgain ==
  /\ XArray \notin open_arrays_
  /\ ~xlocked
  /\ waiter_pc = "closed"
  /\ open_arrays_' = open_arrays_ \cup {XArray}
  /\ waiter_pc' = "idle"
  /\ UNCHANGED <<queries_in_progress_, query_pc, wakeups, array_state, open_call,
                 open_result, xlockVars, rangeVars, uriVars, cancelVars, metaVars>>

\* Consolidation or vacuum asks for the exclusive lock of the array: under
\* open_arrays_mtx_ it waits on xlock_cv_ until the array is not open, and
\* holds the exclusive lock when the wait returns.
ArrayXlock ==
  /\ xlock_pc \in {"idle", "blocked"}
  /\ xlock_pc' = xlock_cv_wait(open_arrays_, XArray)
  /\ xlock_pc # xlock_pc'
  /\ xlocked' = (xlock_pc' = "locked")
  /\ UNCHANGED <<fragments, queryVars, openVars, rangeVars, uriVars, cancelVars,
                 metaVars>>

\* Consolidation writes the merged fragment, vacuum removes a superseded one.
MutateFragments ==
  /\ xlock_pc = "locked"
  /\ fragments < MaxFragmentMutations
  /\ fragments' = fragments + 1
  /\ UNCHANGED <<xlocked, xlock_pc, queryVars, openVars, rangeVars, uriVars,
                 cancelVars, metaVars>>

\* The exclusive operation ends and gives the exclusive lock back.
ArrayXunlock ==
  /\ xlock_pc = "locked"
  /\ xlocked' = FALSE
  /\ xlock_pc' = "idle"
  /\ fragments' = 0
  /\ UNCHANGED <<queryVars, openVars, rangeVars, uriVars, cancelVars, metaVars>>

\* A query begins only against an open array, and array_close_for_* is
\* called only on an open array.
NextXlock ==
  \/ \E q \in Queries : XArray \in open_arrays_ /\ QueryBegin(q)
  \/ \E q \in Queries : QueryEnd(q)
  \/ XArray \in open_arrays_ /\ WaitForZeroInProgress
  \/ SpuriousWakeup
  \/ WaitRecheck
  \/ ArrayCloseErase
  \/ ArrayOpenAgain
  \/ ArrayXlock
  \/ MutateFragments
  \/ ArrayXunlock

SpecXlock == InitXlock /\ [][NextXlock]_vars

====
